---- MODULE Spec2Model ----
(***************************************************************************)
(* Booking core of the ticketing system: ticketService.BuyTicket,          *)
(* ticketService.CancelTicket and ticketService.UpdateTicketStatus of the  *)
(* transactional ticket service, run by concurrent request handlers        *)
(* against one MySQL/InnoDB database through gorm.io/gorm.                 *)
(*                                                                         *)
(* Storage semantics the handlers rely on (InnoDB, REPEATABLE READ):       *)
(*  - a plain SELECT is a consistent non-locking read of committed rows;   *)
(*  - UPDATE/INSERT take row locks held until COMMIT/ROLLBACK; an UPDATE   *)
(*    with an expression (available - ?) reads the latest committed value; *)
(*  - an INSERT into tickets checks the foreign key on events and holds a  *)
(*    shared lock on the parent event row;                                 *)
(*  - the writes of a transaction become visible together at COMMIT;       *)
(*  - any statement may return an error (lost connection, lock wait        *)
(*    timeout, deadlock victim); inside db.Transaction an error returned   *)
(*    by the callback rolls the transaction back.                          *)
(* Time is counted in whole hours.                                         *)
(***************************************************************************)
EXTENDS Integers, FiniteSets, Sequences, TLC

(* ---------------------------- bounds ----------------------------------- *)
\* request handlers running concurrently
Procs == {"p1", "p2"}
\* largest capacity an event is created with
MaxCapacity == 2
\* ticket rows the ledger can hold
MaxTickets == 2
\* service calls started in one run
MaxCalls == 2
\* hours the clock advances
MaxNow == 2

(* ---------------------------- data ------------------------------------- *)
EventIDs == {"e1"}
\* an id no event row has
MissingEvent == "e0"
UserIDs == {"u1", "u2", "u3"}
TicketIDs == 1..MaxTickets
\* quantities a request carries: negative, zero, and up to the largest capacity
Quantities == -1..MaxCapacity
Prices == {50}
EventDates == {2}

TicketStatusActive == "active"
TicketStatusUsed == "used"
TicketStatusCancelled == "cancelled"
TicketStatusExpired == "expired"
TicketStatuses == {TicketStatusActive, TicketStatusUsed, TicketStatusCancelled, TicketStatusExpired}

EventStatusActive == "active"
EventStatusOngoing == "ongoing"
EventStatusCompleted == "completed"
EventStatusCancelled == "cancelled"
EventStatuses == {EventStatusActive, EventStatusOngoing, EventStatusCompleted, EventStatusCancelled}

\* Ticket.Quantity carries gorm:"default:1": a zero value is stored as 1
DefaultQuantity == 1

\* hours before the event at which purchases / cancellations close
PurchaseCutoff == 1
CancelCutoff == 2

\* tx.Set("gorm:query_option", "FOR UPDATE") is a setting of jinzhu/gorm (v1).
\* The query builder of gorm.io/gorm never reads it (a row lock is asked for
\* with Clauses(clause.Locking{Strength: "UPDATE"})), so the statements at
\* BuyTicket line 61 and CancelTicket line 184 are plain SELECTs.
QueryOptionHonoured == FALSE

NoTicket == [userID |-> "", eventID |-> "", quantity |-> 0, totalPrice |-> 0, status |-> "none"]
NoEvent == [capacity |-> 0, available |-> 0, price |-> 0, eventDate |-> 0, status |-> "none", deleted |-> FALSE]
\* capacity, price and eventDate are the pointer fields of UpdateEventRequest:
\* <<>> is nil, <<v>> points to v
NoCall == [op |-> "none", userID |-> "", eventID |-> "", quantity |-> 0, ticketID |-> 0, status |-> "",
           capacity |-> <<>>, price |-> <<>>, eventDate |-> <<>>]

\* error values returned by the service
ErrNotFound == "record not found"
ErrInactive == "user account is not active"
ErrNotAvailable == "event is not available for booking"
ErrInsufficient == "insufficient tickets available"
ErrTooLateBuy == "cannot purchase tickets for events starting within an hour"
ErrNotOwner == "you can only cancel your own tickets"
ErrNotCancellable == "ticket cannot be cancelled"
ErrTooLateCancel == "cannot cancel tickets within 2 hours of event start"
ErrCancelledTicket == "cannot update cancelled ticket"
ErrNotActive == "can only mark active tickets as used"
ErrNotModifiable == "cannot modify event that is not active"
ErrNegativeCapacity == "capacity cannot be negative"
ErrBelowSold == "cannot reduce capacity below sold tickets"
ErrNegativePrice == "price cannot be negative"
ErrPastDate == "event date cannot be in the past"
ErrHasSold == "cannot delete event with sold tickets"

\* MySQL error 1205, returned by a statement whose wait for a row lock
\* exceeded innodb_lock_wait_timeout; the service returns it as it is
ErrLockWait == "Error 1205: Lock wait timeout exceeded; try restarting transaction"

\* the error the driver returns when statement stmt fails
ErrStorage(stmt) == "storage error: " \o stmt
OK == "ok"

VARIABLES
  events,    \* committed rows of table events: EventIDs -> event record
  tickets,   \* committed rows of table tickets: TicketIDs -> ticket record or NoTicket
  users,     \* committed rows of table users: UserIDs -> "active" | "inactive" | "absent"
  now,       \* the clock, in hours
  pc,        \* each handler's position
  call,      \* each handler's call and its arguments
  ev,        \* each handler's local event (the row it read)
  tkt,       \* each handler's local ticket struct
  tid,       \* the id of that ticket (0: none)
  result,    \* what the call returned: "" (running), OK or an error
  applied,   \* history: the call's writes were committed
  calls,     \* history: calls started
  sold,      \* history: per event, the quantities of the BuyTicket calls that returned a ticket
  pre,       \* history: per ticket, the event's available just before its purchase committed
  took,      \* history: per ticket, what its purchase's commit took from available
  gave,      \* history: per ticket, what the commits of its cancellations added to available
  returned   \* history: per ticket, how many cancellations of it committed

db == <<events, tickets, users>>
locals == <<pc, call, ev, tkt, tid, result, applied>>
hist == <<calls, sold, pre, took, gave, returned>>
vars == <<events, tickets, users, now, pc, call, ev, tkt, tid, result, applied, calls, sold, pre, took, gave, returned>>

(* ---------------------------- entity helpers --------------------------- *)
\* Event.IsAvailable
IsAvailable(e) == e.available > 0 /\ e.status = EventStatusActive

\* mutant of CanBeCancelled: only a used ticket is refused
CanBeCancelledUnlessUsed(t) == t.status # TicketStatusUsed

\* Ticket.CanBeCancelled
CanBeCancelled(t) == t.status = TicketStatusActive

\* mutant of Before: a time equal to the limit counts as before it
BeforeOrAt(t, u) == t <= u

\* t.Before(u) on the hour scale
Before(t, u) == t < u

\* the quantity INSERT stores for a Ticket struct whose Quantity is q
StoredQuantity(q) == IF q = 0 THEN DefaultQuantity ELSE q

\* a read of events by id finds the row: it exists and is not soft-deleted
\* (Event.DeletedAt: gorm adds deleted_at IS NULL to every query and update)
EventVisible(e) == e \in DOMAIN events /\ ~events[e].deleted

(* ---------------------------- row locks -------------------------------- *)
\* the event row a handler's transaction works on
TxEvent(p) == IF call[p].op = "buy" THEN call[p].eventID ELSE tkt[p].eventID

\* mutant of EventXHolders: one lock for the whole events table, so the
\* holders are the transactions past their UPDATE of any event
EventXHoldersAnyRow(e) ==
  {p \in Procs : /\ TxEvent(p) \in DOMAIN events
                 /\ \/ pc[p] \in {"buy_commit", "cancel_commit"}
                    \/ QueryOptionHonoured /\ pc[p] \in {"buy_create", "buy_update"}}

\* transactions holding the exclusive lock of event row e: after their UPDATE
\* of events (or after a locking read, were it issued)
EventXHolders(e) ==
  {p \in Procs : /\ TxEvent(p) = e
                 /\ \/ pc[p] \in {"buy_commit", "cancel_commit"}
                    \/ QueryOptionHonoured /\ pc[p] \in {"buy_create", "buy_update"}}

\* transactions holding a shared lock of event row e: after their INSERT of a
\* ticket referencing e
EventSHolders(e) ==
  {p \in Procs : call[p].op = "buy" /\ call[p].eventID = e
                 /\ pc[p] \in {"buy_update", "buy_commit"}}

\* transactions holding the exclusive lock of ticket row t: after their UPDATE
\* of the ticket (or after a locking read, were it issued)
TicketXHolders(t) ==
  {p \in Procs : /\ call[p].op = "cancel" /\ call[p].ticketID = t
                 /\ \/ pc[p] \in {"cancel_update", "cancel_commit"}
                    \/ QueryOptionHonoured /\ pc[p] \in {"cancel_event", "cancel_save"}}

\* uuid.New(): an id no committed or pending ticket has
FreshIDs == {i \in TicketIDs : tickets[i] = NoTicket /\ \A p \in Procs : tid[p] # i}
NewID == CHOOSE i \in FreshIDs : \A j \in FreshIDs : i <= j

(* ---------------------------- initial state ---------------------------- *)
\* the ticket struct BuyTicket builds from the event it read
NewTicket(u, e, q, price) ==
  [userID |-> u, eventID |-> e, quantity |-> q, totalPrice |-> price * q, status |-> TicketStatusActive]

\* An event as eventService.CreateEvent stores it (available = capacity,
\* status active), three user rows, and either an empty ledger or one
\* committed purchase: ticket 1, bought by u1 through BuyTicket with a
\* quantity q0 in 1..capacity (q0 = 0: no purchase yet).
InitWith(statuses) ==
  /\ \E c \in 1..MaxCapacity, pr \in Prices, d \in EventDates, q0 \in 0..MaxCapacity, st \in statuses :
       /\ q0 <= c
       /\ events = [e \in EventIDs |-> [capacity |-> c, available |-> c - q0, price |-> pr,
                                        eventDate |-> d, status |-> st, deleted |-> FALSE]]
       /\ tickets = [t \in TicketIDs |->
                       IF t = 1 /\ q0 > 0 THEN NewTicket("u1", "e1", q0, pr) ELSE NoTicket]
       /\ sold = [e \in EventIDs |-> q0]
       /\ pre = [t \in TicketIDs |-> IF t = 1 /\ q0 > 0 THEN c ELSE 0]
       /\ took = [t \in TicketIDs |-> IF t = 1 THEN q0 ELSE 0]
  /\ users = [u \in UserIDs |-> CASE u = "u1" -> "active" [] u = "u2" -> "inactive" [] OTHER -> "absent"]
  /\ now = 0
  /\ pc = [p \in Procs |-> "idle"]
  /\ call = [p \in Procs |-> NoCall]
  /\ ev = [p \in Procs |-> NoEvent]
  /\ tkt = [p \in Procs |-> NoTicket]
  /\ tid = [p \in Procs |-> 0]
  /\ result = [p \in Procs |-> ""]
  /\ applied = [p \in Procs |-> FALSE]
  /\ calls = 0
  /\ gave = [t \in TicketIDs |-> 0]
  /\ returned = [t \in TicketIDs |-> 0]

\* the event is open for booking
Init == InitWith({EventStatusActive})

\* the event row holds any status the column admits (Event.Status is an
\* enum of four values; BuyTicket reads whatever the row holds)
InitAnyStatus == InitWith(EventStatuses)

(* ---------------------------- common steps ----------------------------- *)
Goto(p, label) == pc' = [pc EXCEPT ![p] = label]

\* a request is routed to an idle handler, which starts the service call
Start(p, c) ==
  /\ pc[p] = "idle"
  /\ calls < MaxCalls
  /\ calls' = calls + 1
  /\ call' = [call EXCEPT ![p] = c]

\* the call returns (nil, err) from its first statement, before any write
Reject(p, err) ==
  /\ Goto(p, "done")
  /\ result' = [result EXCEPT ![p] = err]
  /\ UNCHANGED <<db, now, ev, tkt, tid, applied, sold, pre, took, gave, returned>>

\* the call returns (nil, err); db.Transaction rolls back what the callback
\* wrote, so none of it reaches the committed rows
Fail(p, err) ==
  /\ Goto(p, "done")
  /\ result' = [result EXCEPT ![p] = err]
  /\ ev' = [ev EXCEPT ![p] = NoEvent]
  /\ tkt' = [tkt EXCEPT ![p] = NoTicket]
  /\ tid' = [tid EXCEPT ![p] = 0]
  /\ UNCHANGED <<db, now, call, applied, hist>>

\* the handler has written its response and is free for the next request
Return(p) ==
  /\ pc[p] = "done"
  /\ Goto(p, "idle")
  /\ call' = [call EXCEPT ![p] = NoCall]
  /\ ev' = [ev EXCEPT ![p] = NoEvent]
  /\ tkt' = [tkt EXCEPT ![p] = NoTicket]
  /\ tid' = [tid EXCEPT ![p] = 0]
  /\ result' = [result EXCEPT ![p] = ""]
  /\ applied' = [applied EXCEPT ![p] = FALSE]
  /\ UNCHANGED <<db, now, hist>>

\* an hour passes
Tick ==
  /\ now < MaxNow
  /\ now' = now + 1
  /\ UNCHANGED <<db, locals, hist>>

(* ---------------------------- BuyTicket -------------------------------- *)
\* mutant of CheckUser: only the existence of the user is checked
CheckUserExists(row) ==
  IF row = "absent" THEN ErrNotFound
  ELSE OK

\* the user gate of BuyTicket on the users row read: the error it returns, or OK
CheckUser(row) ==
  IF row = "absent" THEN ErrNotFound
  ELSE IF row # "active" THEN ErrInactive
  ELSE OK

\* mutant of CheckEvent: a purchase exactly at the cutoff (eventDate equal to
\* now + 1h) is refused
CheckEventCutoffInclusive(e, q, t) ==
  IF ~IsAvailable(e) THEN ErrNotAvailable
  ELSE IF e.available < q THEN ErrInsufficient
  ELSE IF e.eventDate <= t + PurchaseCutoff THEN ErrTooLateBuy
  ELSE OK

\* mutant of CheckEvent: the capacity and date checks come before the
\* availability gate
CheckEventGateLast(e, q, t) ==
  IF e.available < q THEN ErrInsufficient
  ELSE IF Before(e.eventDate, t + PurchaseCutoff) THEN ErrTooLateBuy
  ELSE IF ~IsAvailable(e) THEN ErrNotAvailable
  ELSE OK

\* mutant of CheckEvent: the capacity check refuses a quantity equal to
\* available
CheckEventInclusive(e, q, t) ==
  IF ~IsAvailable(e) THEN ErrNotAvailable
  ELSE IF e.available <= q THEN ErrInsufficient
  ELSE IF Before(e.eventDate, t + PurchaseCutoff) THEN ErrTooLateBuy
  ELSE OK

\* the checks of BuyTicket on the event row read, for a requested quantity q
\* at time t, in the order of the code: the error returned, or OK
CheckEvent(e, q, t) ==
  IF ~IsAvailable(e) THEN ErrNotAvailable
  ELSE IF e.available < q THEN ErrInsufficient
  ELSE IF Before(e.eventDate, t + PurchaseCutoff) THEN ErrTooLateBuy
  ELSE OK

\* TicketController.BuyTicket: ShouldBindJSON checks `binding` tags only, and
\* BuyTicketRequest carries `validate` tags, so every integer quantity and
\* every event id reaches the service. ticketService.BuyTicket opens the
\* transaction and reads the user with s.userRepo.GetByID (IsActive check).
BuyTicket(p, u, e, q, ok) ==
  /\ Start(p, [NoCall EXCEPT !.op = "buy", !.userID = u, !.eventID = e, !.quantity = q])
  /\ IF ~ok THEN Reject(p, ErrStorage("SELECT users"))
     ELSE IF CheckUser(users[u]) # OK THEN Reject(p, CheckUser(users[u]))
     ELSE Goto(p, "buy_event") /\ UNCHANGED <<db, now, ev, tkt, tid, result, applied, sold, pre, took, gave, returned>>

\* the SELECT of the event inside the transaction, then the availability,
\* capacity and date checks against the row read, then the ticket struct
BuyReadEvent(p, ok) ==
  /\ pc[p] = "buy_event"
  /\ IF ~ok THEN Fail(p, ErrStorage("SELECT events"))
     ELSE IF ~EventVisible(call[p].eventID) THEN Fail(p, ErrNotFound)
     ELSE LET e == events[call[p].eventID] IN
       /\ QueryOptionHonoured =>
            /\ EventXHolders(call[p].eventID) \subseteq {p}
            /\ EventSHolders(call[p].eventID) \subseteq {p}
       /\ IF CheckEvent(e, call[p].quantity, now) # OK THEN Fail(p, CheckEvent(e, call[p].quantity, now))
          ELSE /\ ev' = [ev EXCEPT ![p] = e]
               /\ tkt' = [tkt EXCEPT ![p] = NewTicket(call[p].userID, call[p].eventID, call[p].quantity, e.price)]
               /\ Goto(p, "buy_create")
               /\ UNCHANGED <<db, now, call, tid, result, applied, hist>>

\* mutant of BuyCreate: the INSERT is committed on its own (r.db.Create
\* outside the transaction)
BuyCreateOutsideTx(p, ok) ==
  /\ pc[p] = "buy_create"
  /\ IF ~ok THEN Fail(p, ErrStorage("INSERT tickets"))
     ELSE /\ FreshIDs # {}
          /\ tid' = [tid EXCEPT ![p] = NewID]
          /\ tkt' = [tkt EXCEPT ![p].quantity = StoredQuantity(@)]
          /\ tickets' = [tickets EXCEPT ![NewID] = [tkt[p] EXCEPT !.quantity = StoredQuantity(@)]]
          /\ Goto(p, "buy_update")
          /\ UNCHANGED <<events, users, now, call, ev, result, applied, hist>>

\* tx.Create(ticket): BeforeCreate assigns the id, a zero Quantity takes the
\* column default; the row is pending until COMMIT and the parent event row
\* is share-locked for the foreign key
BuyCreate(p, ok) ==
  /\ pc[p] = "buy_create"
  /\ IF ~ok THEN Fail(p, ErrStorage("INSERT tickets"))
     ELSE /\ FreshIDs # {}
          /\ EventXHolders(call[p].eventID) \subseteq {p}
          /\ tid' = [tid EXCEPT ![p] = NewID]
          /\ tkt' = [tkt EXCEPT ![p].quantity = StoredQuantity(@)]
          /\ Goto(p, "buy_update")
          /\ UNCHANGED <<db, now, call, ev, result, applied, hist>>

\* UPDATE events SET available = available - ? WHERE id = ?: waits for the
\* exclusive lock of the row; the new value is pending until COMMIT
BuyUpdate(p, ok) ==
  /\ pc[p] = "buy_update"
  /\ IF ~ok THEN Fail(p, ErrStorage("UPDATE events"))
     ELSE /\ EventXHolders(call[p].eventID) \subseteq {p}
          /\ EventSHolders(call[p].eventID) \subseteq {p}
          /\ Goto(p, "buy_commit")
          /\ UNCHANGED <<db, now, call, ev, tkt, tid, result, applied, hist>>

\* the value the pending UPDATE of a purchase gives available
Decrement(available, q) == available - q

\* the callback returned nil: COMMIT makes the ticket row and the decrement
\* (applied to the row's current value) visible together
BuyCommit(p, ok) ==
  /\ pc[p] = "buy_commit"
  /\ IF ~ok THEN Fail(p, ErrStorage("COMMIT"))
     ELSE LET e == call[p].eventID IN
          /\ tickets' = [tickets EXCEPT ![tid[p]] = tkt[p]]
          /\ events' = IF EventVisible(e)
                       THEN [events EXCEPT ![e].available = Decrement(@, call[p].quantity)]
                       ELSE events
          /\ applied' = [applied EXCEPT ![p] = TRUE]
          /\ pre' = [pre EXCEPT ![tid[p]] = events[e].available]
          /\ took' = [took EXCEPT ![tid[p]] = events[e].available - events'[e].available]
          /\ Goto(p, "buy_get")
          /\ UNCHANGED <<users, now, call, ev, tkt, tid, result, calls, sold, gave, returned>>

\* return s.GetTicketByID(ticket.ID), after the transaction has committed
BuyGetTicket(p, ok) ==
  /\ pc[p] = "buy_get"
  /\ IF ~ok THEN Fail(p, ErrStorage("SELECT tickets"))
     ELSE IF tickets[tid[p]] = NoTicket THEN Fail(p, ErrNotFound)
     ELSE /\ tkt' = [tkt EXCEPT ![p] = tickets[tid[p]]]
          /\ result' = [result EXCEPT ![p] = OK]
          /\ sold' = [sold EXCEPT ![call[p].eventID] = @ + call[p].quantity]
          /\ Goto(p, "done")
          /\ UNCHANGED <<db, now, call, ev, tid, applied, calls, pre, took, gave, returned>>

(* ---------------------------- CancelTicket ----------------------------- *)
\* mutant of CheckTicket: the status is checked before the ownership
CheckTicketStatusFirst(row, u) ==
  IF row = NoTicket THEN ErrNotFound
  ELSE IF ~CanBeCancelled(row) THEN ErrNotCancellable
  ELSE IF row.userID # u THEN ErrNotOwner
  ELSE OK

\* the checks of CancelTicket on the ticket row read, for the caller u, in
\* the order of the code: the error returned, or OK
CheckTicket(row, u) ==
  IF row = NoTicket THEN ErrNotFound
  ELSE IF row.userID # u THEN ErrNotOwner
  ELSE IF ~CanBeCancelled(row) THEN ErrNotCancellable
  ELSE OK

\* ticketService.CancelTicket: opens the transaction and reads the ticket
\* (the first read fixes the transaction's snapshot), then checks ownership
\* and CanBeCancelled on the row read
CancelTicket(p, t, u, ok) ==
  /\ Start(p, [NoCall EXCEPT !.op = "cancel", !.userID = u, !.ticketID = t])
  /\ QueryOptionHonoured /\ ok => TicketXHolders(t) \subseteq {p}
  /\ IF ~ok THEN Reject(p, ErrStorage("SELECT tickets"))
     ELSE IF CheckTicket(tickets[t], u) # OK THEN Reject(p, CheckTicket(tickets[t], u))
     ELSE /\ tkt' = [tkt EXCEPT ![p] = tickets[t]]
          /\ tid' = [tid EXCEPT ![p] = t]
          /\ ev' = [ev EXCEPT ![p] = events[tickets[t].eventID]]
          /\ Goto(p, "cancel_event")
          /\ UNCHANGED <<db, now, result, applied, sold, pre, took, gave, returned>>

\* the SELECT of the ticket's event (no lock asked for) and the date check
CancelReadEvent(p, ok) ==
  /\ pc[p] = "cancel_event"
  /\ IF ~ok THEN Fail(p, ErrStorage("SELECT events"))
     ELSE LET e == IF QueryOptionHonoured THEN events[tkt[p].eventID] ELSE ev[p] IN
          IF e.deleted THEN Fail(p, ErrNotFound)
          ELSE IF Before(e.eventDate, now + CancelCutoff) THEN Fail(p, ErrTooLateCancel)
          ELSE /\ ev' = [ev EXCEPT ![p] = e]
               /\ Goto(p, "cancel_save")
               /\ UNCHANGED <<db, now, call, tkt, tid, result, applied, hist>>

\* mutant of CancelSave: the status write is committed on its own
\* (s.ticketRepo.Update outside the transaction)
CancelSaveOutsideTx(p, ok) ==
  /\ pc[p] = "cancel_save"
  /\ IF ~ok THEN Fail(p, ErrStorage("UPDATE tickets"))
     ELSE /\ TicketXHolders(tid[p]) \subseteq {p}
          /\ tkt' = [tkt EXCEPT ![p].status = TicketStatusCancelled]
          /\ tickets' = [tickets EXCEPT ![tid[p]] = [tkt[p] EXCEPT !.status = TicketStatusCancelled]]
          /\ Goto(p, "cancel_update")
          /\ UNCHANGED <<events, users, now, call, ev, tid, result, applied, hist>>

\* ticket.Status = cancelled; tx.Save(ticket): an UPDATE of every column of
\* the row from the struct, waiting for the row's exclusive lock
CancelSave(p, ok) ==
  /\ pc[p] = "cancel_save"
  /\ IF ~ok THEN Fail(p, ErrStorage("UPDATE tickets"))
     ELSE /\ TicketXHolders(tid[p]) \subseteq {p}
          /\ tkt' = [tkt EXCEPT ![p].status = TicketStatusCancelled]
          /\ Goto(p, "cancel_update")
          /\ UNCHANGED <<db, now, call, ev, tid, result, applied, hist>>

\* UPDATE events SET available = available + ? WHERE id = ?
CancelUpdate(p, ok) ==
  /\ pc[p] = "cancel_update"
  /\ IF ~ok THEN Fail(p, ErrStorage("UPDATE events"))
     ELSE /\ EventXHolders(tkt[p].eventID) \subseteq {p}
          /\ EventSHolders(tkt[p].eventID) \subseteq {p}
          /\ Goto(p, "cancel_commit")
          /\ UNCHANGED <<db, now, call, ev, tkt, tid, result, applied, hist>>

\* the value the pending UPDATE of a cancellation gives available
Increment(available, q) == available + q

\* COMMIT makes the ticket row and the increment visible together; the call
\* returns the ticket struct
CancelCommit(p, ok) ==
  /\ pc[p] = "cancel_commit"
  /\ IF ~ok THEN Fail(p, ErrStorage("COMMIT"))
     ELSE /\ tickets' = [tickets EXCEPT ![tid[p]] = tkt[p]]
          /\ events' = IF EventVisible(tkt[p].eventID)
                       THEN [events EXCEPT ![tkt[p].eventID].available = Increment(@, tkt[p].quantity)]
                       ELSE events
          /\ applied' = [applied EXCEPT ![p] = TRUE]
          /\ returned' = [returned EXCEPT ![tid[p]] = @ + 1]
          /\ gave' = [gave EXCEPT ![tid[p]] = @ + events'[tkt[p].eventID].available - events[tkt[p].eventID].available]
          /\ result' = [result EXCEPT ![p] = OK]
          /\ Goto(p, "done")
          /\ UNCHANGED <<users, now, call, ev, tkt, tid, calls, sold, pre, took>>

(* ---------------------------- UpdateTicketStatus ----------------------- *)
\* the transition checks of UpdateTicketStatus on the ticket row read, for
\* the requested status s: the error returned, or OK
CheckTransition(row, s) ==
  IF row = NoTicket THEN ErrNotFound
  ELSE IF row.status = TicketStatusCancelled THEN ErrCancelledTicket
  ELSE IF s = TicketStatusUsed /\ row.status # TicketStatusActive THEN ErrNotActive
  ELSE OK

\* TicketController.UpdateTicketStatus binds the status unvalidated (the
\* oneof rule is a `validate` tag); ticketService.UpdateTicketStatus reads
\* the ticket with ticketRepo.GetByID and checks the transition
UpdateTicketStatus(p, t, s, ok) ==
  /\ Start(p, [NoCall EXCEPT !.op = "update", !.ticketID = t, !.status = s])
  /\ IF ~ok THEN Reject(p, ErrStorage("SELECT tickets"))
     ELSE IF CheckTransition(tickets[t], s) # OK THEN Reject(p, CheckTransition(tickets[t], s))
     ELSE /\ tkt' = [tkt EXCEPT ![p] = [tickets[t] EXCEPT !.status = s]]
          /\ tid' = [tid EXCEPT ![p] = t]
          /\ Goto(p, "update_save")
          /\ UNCHANGED <<db, now, ev, result, applied, sold, pre, took, gave, returned>>

\* mutant of UpdateSave: a save that sets the status to cancelled also
\* returns the ticket's quantity to its event
UpdateSaveReturning(p, ok) ==
  /\ pc[p] = "update_save"
  /\ IF ~ok THEN Fail(p, ErrStorage("UPDATE tickets"))
     ELSE /\ TicketXHolders(tid[p]) \subseteq {p}
          /\ tickets' = [tickets EXCEPT ![tid[p]] = tkt[p]]
          /\ events' = IF tkt[p].status = TicketStatusCancelled
                       THEN [events EXCEPT ![tkt[p].eventID].available = @ + tkt[p].quantity]
                       ELSE events
          /\ applied' = [applied EXCEPT ![p] = TRUE]
          /\ result' = [result EXCEPT ![p] = OK]
          /\ Goto(p, "done")
          /\ UNCHANGED <<users, now, call, ev, tkt, tid, hist>>

\* s.ticketRepo.Update(ticket): r.db.Save writes every column of the row
\* from the struct read earlier, in its own transaction
UpdateSave(p, ok) ==
  /\ pc[p] = "update_save"
  /\ IF ~ok THEN Fail(p, ErrStorage("UPDATE tickets"))
     ELSE /\ TicketXHolders(tid[p]) \subseteq {p}
          /\ tickets' = [tickets EXCEPT ![tid[p]] = tkt[p]]
          /\ applied' = [applied EXCEPT ![p] = TRUE]
          /\ result' = [result EXCEPT ![p] = OK]
          /\ Goto(p, "done")
          /\ UNCHANGED <<events, users, now, call, ev, tkt, tid, hist>>

(* ---------------------------- UpdateEvent ------------------------------ *)
\* Event.CanBeModified
CanBeModified(e) == e.status = EventStatusActive

\* mutant of SoldTickets: the sold count is taken to be the capacity
SoldTicketsAll(e) == e.capacity

\* soldTickets := event.Capacity - event.Available
SoldTickets(e) == e.capacity - e.available

\* the checks of UpdateEvent on the event read and the request, in the
\* order of the code (the name, description, category and location of an
\* event are not part of the model)
CheckUpdate(e, cap, price, date, t) ==
  IF ~CanBeModified(e) THEN ErrNotModifiable
  ELSE IF cap # <<>> /\ cap[1] < 0 THEN ErrNegativeCapacity
  ELSE IF cap # <<>> /\ cap[1] < SoldTickets(e) THEN ErrBelowSold
  ELSE IF price # <<>> /\ price[1] < 0 THEN ErrNegativePrice
  ELSE IF date # <<>> /\ Before(date[1], t) THEN ErrPastDate
  ELSE OK

\* the event struct after UpdateEvent's assignments
Updated(e, cap, price, date) ==
  [e EXCEPT !.available = IF cap # <<>> THEN cap[1] - SoldTickets(e) ELSE @,
            !.capacity = IF cap # <<>> THEN cap[1] ELSE @,
            !.price = IF price # <<>> THEN price[1] ELSE @,
            !.eventDate = IF date # <<>> THEN date[1] ELSE @]

\* PUT /admin/events/:id: s.eventRepo.GetByID, the checks, and the new field
\* values assigned to the struct read
UpdateEvent(p, e, cap, price, date, ok) ==
  /\ Start(p, [NoCall EXCEPT !.op = "event_update", !.eventID = e, !.capacity = cap,
                             !.price = price, !.eventDate = date])
  /\ IF ~ok THEN Reject(p, ErrStorage("SELECT events"))
     ELSE IF ~EventVisible(e) THEN Reject(p, ErrNotFound)
     ELSE IF CheckUpdate(events[e], cap, price, date, now) # OK
     THEN Reject(p, CheckUpdate(events[e], cap, price, date, now))
     ELSE /\ ev' = [ev EXCEPT ![p] = Updated(events[e], cap, price, date)]
          /\ Goto(p, "event_save")
          /\ UNCHANGED <<db, now, tkt, tid, result, applied, sold, pre, took, gave, returned>>

\* s.eventRepo.Update(event): r.db.Save writes every column of the row from
\* the struct, in a transaction of its own, waiting for the row's lock. On a
\* row soft-deleted since the read the UPDATE matches nothing, and Save
\* either leaves it so or writes the struct as an upsert (deleted_at NULL),
\* depending on the gorm release.
UpdateEventSave(p, ok) ==
  /\ pc[p] = "event_save"
  /\ IF ~ok THEN Fail(p, ErrStorage("UPDATE events"))
     ELSE LET e == call[p].eventID IN
          /\ EventXHolders(e) \subseteq {p}
          /\ EventSHolders(e) \subseteq {p}
          /\ \E upsert \in BOOLEAN :
               events' = IF EventVisible(e) \/ upsert THEN [events EXCEPT ![e] = ev[p]] ELSE events
          /\ applied' = [applied EXCEPT ![p] = TRUE]
          /\ result' = [result EXCEPT ![p] = OK]
          /\ Goto(p, "done")
          /\ UNCHANGED <<tickets, users, now, call, ev, tkt, tid, hist>>

(* ---------------------------- DeleteEvent ------------------------------ *)
\* the check of DeleteEvent on the event read
CheckDelete(e) == IF SoldTickets(e) > 0 THEN ErrHasSold ELSE OK

\* DELETE /admin/events/:id: s.eventRepo.GetByID and the sold-tickets check
DeleteEvent(p, e, ok) ==
  /\ Start(p, [NoCall EXCEPT !.op = "event_delete", !.eventID = e])
  /\ IF ~ok THEN Reject(p, ErrStorage("SELECT events"))
     ELSE IF ~EventVisible(e) THEN Reject(p, ErrNotFound)
     ELSE IF CheckDelete(events[e]) # OK THEN Reject(p, CheckDelete(events[e]))
     ELSE /\ ev' = [ev EXCEPT ![p] = events[e]]
          /\ Goto(p, "event_delete")
          /\ UNCHANGED <<db, now, tkt, tid, result, applied, sold, pre, took, gave, returned>>

\* s.eventRepo.Delete(id): Event has a DeletedAt column, so r.db.Delete is
\* UPDATE events SET deleted_at = now WHERE id = ? AND deleted_at IS NULL,
\* in a transaction of its own, waiting for the row's lock
DeleteEventSave(p, ok) ==
  /\ pc[p] = "event_delete"
  /\ IF ~ok THEN Fail(p, ErrStorage("DELETE events"))
     ELSE LET e == call[p].eventID IN
          /\ EventXHolders(e) \subseteq {p}
          /\ EventSHolders(e) \subseteq {p}
          /\ events' = [events EXCEPT ![e].deleted = TRUE]
          /\ applied' = [applied EXCEPT ![p] = TRUE]
          /\ result' = [result EXCEPT ![p] = OK]
          /\ Goto(p, "done")
          /\ UNCHANGED <<tickets, users, now, call, ev, tkt, tid, hist>>

(* ---------------------------- BuyTicket without a transaction ---------- *)
\* the service variant built from three repositories: every statement is
\* committed on its own. It starts with the same read of the user.
PlainBuyTicket(p, u, e, q, ok) ==
  /\ Start(p, [NoCall EXCEPT !.op = "plain_buy", !.userID = u, !.eventID = e, !.quantity = q])
  /\ IF ~ok THEN Reject(p, ErrStorage("SELECT users"))
     ELSE IF CheckUser(users[u]) # OK THEN Reject(p, CheckUser(users[u]))
     ELSE Goto(p, "plain_event") /\ UNCHANGED <<db, now, ev, tkt, tid, result, applied, sold, pre, took, gave, returned>>

\* s.eventRepo.GetByID and the availability, capacity and date checks
PlainReadEvent(p, ok) ==
  /\ pc[p] = "plain_event"
  /\ IF ~ok THEN Fail(p, ErrStorage("SELECT events"))
     ELSE IF ~EventVisible(call[p].eventID) THEN Fail(p, ErrNotFound)
     ELSE LET e == events[call[p].eventID] IN
          IF CheckEvent(e, call[p].quantity, now) # OK THEN Fail(p, CheckEvent(e, call[p].quantity, now))
          ELSE /\ ev' = [ev EXCEPT ![p] = e]
               /\ tkt' = [tkt EXCEPT ![p] = NewTicket(call[p].userID, call[p].eventID, call[p].quantity, e.price)]
               /\ Goto(p, "plain_create")
               /\ UNCHANGED <<db, now, call, tid, result, applied, hist>>

\* s.ticketRepo.Create(ticket): the INSERT is committed at once
PlainCreate(p, ok) ==
  /\ pc[p] = "plain_create"
  /\ IF ~ok THEN Fail(p, ErrStorage("INSERT tickets"))
     ELSE /\ FreshIDs # {}
          /\ EventXHolders(call[p].eventID) \subseteq {p}
          /\ tid' = [tid EXCEPT ![p] = NewID]
          /\ tkt' = [tkt EXCEPT ![p].quantity = StoredQuantity(@)]
          /\ tickets' = [tickets EXCEPT ![NewID] = [tkt[p] EXCEPT !.quantity = StoredQuantity(@)]]
          /\ Goto(p, "plain_update")
          /\ UNCHANGED <<events, users, now, call, ev, result, applied, hist>>

\* mutant of PlainUpdate: the decrement is applied only to a row that still
\* has the seats (UPDATE ... WHERE available >= ?), and a purchase whose
\* decrement matched no row deletes its ticket and is refused
PlainUpdateChecked(p, ok) ==
  /\ pc[p] = "plain_update"
  /\ LET e == call[p].eventID IN
     IF ~ok \/ events[e].available < call[p].quantity
     THEN /\ \E deleted \in BOOLEAN :
               tickets' = IF deleted THEN [tickets EXCEPT ![tid[p]] = NoTicket] ELSE tickets
          /\ result' = [result EXCEPT ![p] = IF ~ok THEN ErrStorage("UPDATE events") ELSE ErrInsufficient]
          /\ Goto(p, "done")
          /\ UNCHANGED <<events, users, now, call, ev, tkt, tid, applied, hist>>
     ELSE /\ EventXHolders(e) \subseteq {p}
          /\ EventSHolders(e) \subseteq {p}
          /\ events' = [events EXCEPT ![e].available = Decrement(@, call[p].quantity)]
          /\ applied' = [applied EXCEPT ![p] = TRUE]
          /\ pre' = [pre EXCEPT ![tid[p]] = events[e].available]
          /\ took' = [took EXCEPT ![tid[p]] = events[e].available - events'[e].available]
          /\ Goto(p, "buy_get")
          /\ UNCHANGED <<tickets, users, now, call, ev, tkt, tid, result, calls, sold, gave, returned>>

\* s.eventRepo.UpdateAvailableTickets: UPDATE events SET available =
\* available - ? WHERE id = ?, committed at once, with no condition on the
\* value. Only when the statement returns an error is the ticket deleted
\* (s.ticketRepo.Delete, whose own error is dropped) and the error returned.
PlainUpdate(p, ok) ==
  /\ pc[p] = "plain_update"
  /\ LET e == call[p].eventID IN
     IF ~ok
     THEN /\ \E deleted \in BOOLEAN :
               tickets' = IF deleted THEN [tickets EXCEPT ![tid[p]] = NoTicket] ELSE tickets
          /\ result' = [result EXCEPT ![p] = ErrStorage("UPDATE events")]
          /\ Goto(p, "done")
          /\ UNCHANGED <<events, users, now, call, ev, tkt, tid, applied, hist>>
     ELSE /\ EventXHolders(e) \subseteq {p}
          /\ EventSHolders(e) \subseteq {p}
          /\ events' = IF EventVisible(e)
                       THEN [events EXCEPT ![e].available = Decrement(@, call[p].quantity)]
                       ELSE events
          /\ applied' = [applied EXCEPT ![p] = TRUE]
          /\ pre' = [pre EXCEPT ![tid[p]] = events[e].available]
          /\ took' = [took EXCEPT ![tid[p]] = events[e].available - events'[e].available]
          /\ Goto(p, "buy_get")
          /\ UNCHANGED <<tickets, users, now, call, ev, tkt, tid, result, calls, sold, gave, returned>>

(* ---------------------------- specifications --------------------------- *)
\* the purchase requests tried: every quantity by the active user on the
\* event, and one request each for a missing event, an inactive user and a
\* missing user
BuyInputs ==
  {<<"u1", e, q>> : e \in EventIDs, q \in Quantities}
    \cup {<<"u1", MissingEvent, 1>>, <<"u2", "e1", 1>>, <<"u3", "e1", 1>>}

Buy(p) ==
  \/ \E i \in BuyInputs, ok \in BOOLEAN : BuyTicket(p, i[1], i[2], i[3], ok)
  \/ \E ok \in BOOLEAN : BuyReadEvent(p, ok)
  \/ \E ok \in BOOLEAN : BuyCreate(p, ok)
  \/ \E ok \in BOOLEAN : BuyUpdate(p, ok)
  \/ \E ok \in BOOLEAN : BuyCommit(p, ok)
  \/ \E ok \in BOOLEAN : BuyGetTicket(p, ok)

Cancel(p) ==
  \/ \E t \in TicketIDs, u \in {"u1", "u2"}, ok \in BOOLEAN : CancelTicket(p, t, u, ok)
  \/ \E ok \in BOOLEAN : CancelReadEvent(p, ok)
  \/ \E ok \in BOOLEAN : CancelSave(p, ok)
  \/ \E ok \in BOOLEAN : CancelUpdate(p, ok)
  \/ \E ok \in BOOLEAN : CancelCommit(p, ok)

Update(p) ==
  \/ \E t \in TicketIDs, s \in TicketStatuses, ok \in BOOLEAN : UpdateTicketStatus(p, t, s, ok)
  \/ \E ok \in BOOLEAN : UpdateSave(p, ok)

\* a state with no call in progress
Quiescent == \A p \in Procs : pc[p] \in {"idle", "done"}

\* every operation, on every handler, concurrently
Next ==
  \/ \E p \in Procs : Buy(p)
  \/ \E p \in Procs : Cancel(p)
  \/ \E p \in Procs : Update(p)
  \/ \E p \in Procs : Return(p)

Spec == Init /\ [][Next]_vars

\* purchases only, concurrently
NextBuy ==
  \/ \E p \in Procs : Buy(p)
  \/ \E p \in Procs : Return(p)

SpecBuy == Init /\ [][NextBuy]_vars

\* purchases and cancellations, concurrently
NextBooking ==
  \/ \E p \in Procs : Buy(p)
  \/ \E p \in Procs : Cancel(p)
  \/ \E p \in Procs : Return(p)

SpecBooking == Init /\ [][NextBooking]_vars

\* every operation, one call at a time (a single handler), while time passes
NextSeq ==
  \/ Buy("p1")
  \/ Cancel("p1")
  \/ Update("p1")
  \/ Return("p1")
  \/ Tick

SpecSeq == Init /\ [][NextSeq]_vars

\* every purchase request the request layer lets through: any user, a
\* present or a missing event, any quantity up to one above the capacity
AllBuyInputs == UserIDs \X (EventIDs \cup {MissingEvent}) \X (-1..(MaxCapacity + 1))

BuyAny(p) ==
  \/ \E i \in AllBuyInputs, ok \in BOOLEAN : BuyTicket(p, i[1], i[2], i[3], ok)
  \/ \E ok \in BOOLEAN : BuyReadEvent(p, ok)
  \/ \E ok \in BOOLEAN : BuyCreate(p, ok)
  \/ \E ok \in BOOLEAN : BuyUpdate(p, ok)
  \/ \E ok \in BOOLEAN : BuyCommit(p, ok)
  \/ \E ok \in BOOLEAN : BuyGetTicket(p, ok)

\* every operation with every request, one call at a time, on an event in
\* any status, while time passes
NextGate ==
  \/ BuyAny("p1")
  \/ Cancel("p1")
  \/ Update("p1")
  \/ Return("p1")
  \/ Tick

SpecGate == InitAnyStatus /\ [][NextGate]_vars

\* Scenario A: a fresh event of capacity 10 and price 50, no ticket sold
InitScenarioA ==
  /\ \E d \in EventDates :
       events = [e \in EventIDs |-> [capacity |-> 10, available |-> 10, price |-> 50,
                                     eventDate |-> d, status |-> EventStatusActive, deleted |-> FALSE]]
  /\ tickets = [t \in TicketIDs |-> NoTicket]
  /\ users = [u \in UserIDs |-> CASE u = "u1" -> "active" [] u = "u2" -> "inactive" [] OTHER -> "absent"]
  /\ now = 0
  /\ pc = [p \in Procs |-> "idle"]
  /\ call = [p \in Procs |-> NoCall]
  /\ ev = [p \in Procs |-> NoEvent]
  /\ tkt = [p \in Procs |-> NoTicket]
  /\ tid = [p \in Procs |-> 0]
  /\ result = [p \in Procs |-> ""]
  /\ applied = [p \in Procs |-> FALSE]
  /\ calls = 0
  /\ sold = [e \in EventIDs |-> 0]
  /\ pre = [t \in TicketIDs |-> 0]
  /\ took = [t \in TicketIDs |-> 0]
  /\ gave = [t \in TicketIDs |-> 0]
  /\ returned = [t \in TicketIDs |-> 0]

\* a purchase of quantity 6 by the active user
BuySix(p) ==
  \/ \E ok \in BOOLEAN : BuyTicket(p, "u1", "e1", 6, ok)
  \/ \E ok \in BOOLEAN : BuyReadEvent(p, ok)
  \/ \E ok \in BOOLEAN : BuyCreate(p, ok)
  \/ \E ok \in BOOLEAN : BuyUpdate(p, ok)
  \/ \E ok \in BOOLEAN : BuyCommit(p, ok)
  \/ \E ok \in BOOLEAN : BuyGetTicket(p, ok)

\* purchases of quantity 6, concurrently
NextScenarioA ==
  \/ \E p \in Procs : BuySix(p)
  \/ \E p \in Procs : Return(p)

SpecScenarioA == InitScenarioA /\ [][NextScenarioA]_vars

\* two events as eventService.CreateEvent stores them, and either an empty
\* ledger or one committed purchase of one seat of the second event
BothEvents == EventIDs \cup {"e2"}

InitTwoEvents ==
  /\ \E c \in 1..MaxCapacity, pr \in Prices, d \in EventDates, q0 \in 0..1 :
       /\ events = [e \in BothEvents |->
                      [capacity |-> c, available |-> IF e = "e2" THEN c - q0 ELSE c, price |-> pr,
                       eventDate |-> d, status |-> EventStatusActive, deleted |-> FALSE]]
       /\ tickets = [t \in TicketIDs |->
                       IF t = 1 /\ q0 > 0 THEN NewTicket("u1", "e2", q0, pr) ELSE NoTicket]
       /\ sold = [e \in BothEvents |-> IF e = "e2" THEN q0 ELSE 0]
       /\ pre = [t \in TicketIDs |-> IF t = 1 /\ q0 > 0 THEN c ELSE 0]
       /\ took = [t \in TicketIDs |-> IF t = 1 THEN q0 ELSE 0]
  /\ users = [u \in UserIDs |-> CASE u = "u1" -> "active" [] u = "u2" -> "inactive" [] OTHER -> "absent"]
  /\ now = 0
  /\ pc = [p \in Procs |-> "idle"]
  /\ call = [p \in Procs |-> NoCall]
  /\ ev = [p \in Procs |-> NoEvent]
  /\ tkt = [p \in Procs |-> NoTicket]
  /\ tid = [p \in Procs |-> 0]
  /\ result = [p \in Procs |-> ""]
  /\ applied = [p \in Procs |-> FALSE]
  /\ calls = 0
  /\ gave = [t \in TicketIDs |-> 0]
  /\ returned = [t \in TicketIDs |-> 0]

\* a purchase of one seat of either event by the active user
BuyEither(p) ==
  \/ \E e \in BothEvents, ok \in BOOLEAN : BuyTicket(p, "u1", e, 1, ok)
  \/ \E ok \in BOOLEAN : BuyReadEvent(p, ok)
  \/ \E ok \in BOOLEAN : BuyCreate(p, ok)
  \/ \E ok \in BOOLEAN : BuyUpdate(p, ok)
  \/ \E ok \in BOOLEAN : BuyCommit(p, ok)
  \/ \E ok \in BOOLEAN : BuyGetTicket(p, ok)

\* purchases and cancellations on two events, concurrently
NextTwoEvents ==
  \/ \E p \in Procs : BuyEither(p)
  \/ \E p \in Procs : Cancel(p)
  \/ \E p \in Procs : Return(p)

SpecTwoEvents == InitTwoEvents /\ [][NextTwoEvents]_vars

\* the transactions holding a row lock that the statement handler p is at
\* asks for
WaitsOn(p) ==
  CASE pc[p] = "buy_create" -> EventXHolders(call[p].eventID) \ {p}
    [] pc[p] = "buy_update" ->
         (EventXHolders(call[p].eventID) \cup EventSHolders(call[p].eventID)) \ {p}
    [] pc[p] = "cancel_save" -> TicketXHolders(tid[p]) \ {p}
    [] pc[p] = "cancel_update" ->
         (EventXHolders(tkt[p].eventID) \cup EventSHolders(tkt[p].eventID)) \ {p}
    [] OTHER -> {}

\* the statement handler p is at waits for a row lock another transaction
\* holds
Blocked(p) == WaitsOn(p) # {}

\* the wait of a blocked statement exceeds the server's bound: the statement
\* returns error 1205, the callback returns it and db.Transaction rolls back
LockWaitTimeout(p) ==
  /\ Blocked(p)
  /\ Fail(p, ErrLockWait)

\* HTTP status classes of the responses
StatusBadRequest == 400
StatusForbidden == 403
StatusConflict == 409
StatusInternalServerError == 500

\* the status the controller answers a failed call with: a few messages of
\* the service are known to it, everything else is an internal error
StatusCode(op, err) ==
  IF op = "buy"
  THEN IF err \in {ErrInactive, ErrNotAvailable, ErrInsufficient, ErrTooLateBuy}
       THEN StatusBadRequest ELSE StatusInternalServerError
  ELSE IF err = ErrNotOwner THEN StatusForbidden
  ELSE IF err \in {ErrNotCancellable, ErrTooLateCancel}
       THEN StatusBadRequest ELSE StatusInternalServerError

\* purchases and cancellations, concurrently, with lock waits that time out
NextLockWait ==
  \/ \E p \in Procs : Buy(p)
  \/ \E p \in Procs : Cancel(p)
  \/ \E p \in Procs : LockWaitTimeout(p)
  \/ \E p \in Procs : Return(p)

SpecLockWait == Init /\ [][NextLockWait]_vars

\* DeleteEvent, start to end
Delete(p) ==
  \/ \E e \in EventIDs \cup {MissingEvent}, ok \in BOOLEAN : DeleteEvent(p, e, ok)
  \/ \E ok \in BOOLEAN : DeleteEventSave(p, ok)

\* purchases by users and deletions by an admin, concurrently
NextDelete ==
  \/ \E p \in Procs : Buy(p)
  \/ \E p \in Procs : Delete(p)
  \/ \E p \in Procs : Return(p)

SpecDelete == Init /\ [][NextDelete]_vars

\* the capacities an admin asks for: none (nil), or a value up to one above
\* the largest capacity of an event
CapacityRequests == {<<>>} \cup {<<c>> : c \in 0..(MaxCapacity + 1)}

\* UpdateEvent, start to end, changing the capacity or the price
Resize(p) ==
  \/ \E e \in EventIDs, cap \in CapacityRequests, price \in {<<>>} \cup {<<pr + 10>> : pr \in Prices}, ok \in BOOLEAN :
       UpdateEvent(p, e, cap, price, <<>>, ok)
  \/ \E ok \in BOOLEAN : UpdateEventSave(p, ok)

\* a purchase of one seat by the active user
BuyOne(p) ==
  \/ \E ok \in BOOLEAN : BuyTicket(p, "u1", "e1", 1, ok)
  \/ \E ok \in BOOLEAN : BuyReadEvent(p, ok)
  \/ \E ok \in BOOLEAN : BuyCreate(p, ok)
  \/ \E ok \in BOOLEAN : BuyUpdate(p, ok)
  \/ \E ok \in BOOLEAN : BuyCommit(p, ok)
  \/ \E ok \in BOOLEAN : BuyGetTicket(p, ok)

\* one handler serves an admin's event updates while the other serves a
\* user's purchases of one seat and cancellations
NextResize ==
  \/ Resize("p1")
  \/ BuyOne("p2")
  \/ Cancel("p2")
  \/ \E p \in Procs : Return(p)

SpecResize == Init /\ [][NextResize]_vars

\* BuyTicket of the variant without a transaction, start to end; its last
\* statement is the same s.GetTicketByID
PlainBuy(p) ==
  \/ \E i \in BuyInputs, ok \in BOOLEAN : PlainBuyTicket(p, i[1], i[2], i[3], ok)
  \/ \E ok \in BOOLEAN : PlainReadEvent(p, ok)
  \/ \E ok \in BOOLEAN : PlainCreate(p, ok)
  \/ \E ok \in BOOLEAN : PlainUpdate(p, ok)
  \/ \E ok \in BOOLEAN : BuyGetTicket(p, ok)

\* purchases through the variant without a transaction, concurrently
NextPlain ==
  \/ \E p \in Procs : PlainBuy(p)
  \/ \E p \in Procs : Return(p)

SpecPlain == Init /\ [][NextPlain]_vars

\* every update request the request layer lets through: a capacity from one
\* below zero to one above the largest, a price, a date, each of them or none
\* (the validate tags of UpdateEventRequest are not enforced by
\* ShouldBindJSON)
AllCapacityRequests == CapacityRequests \cup {<<-1>>}
AllPriceRequests == {<<>>, <<-1>>} \cup {<<pr + 10>> : pr \in Prices}
AllDateRequests == {<<>>, <<0>>} \cup {<<d>> : d \in EventDates}

UpdateEventAny(p) ==
  \/ \E e \in EventIDs \cup {MissingEvent}, cap \in AllCapacityRequests, price \in AllPriceRequests,
        date \in AllDateRequests, ok \in BOOLEAN :
       UpdateEvent(p, e, cap, price, date, ok)
  \/ \E ok \in BOOLEAN : UpdateEventSave(p, ok)

\* an admin's event updates and deletions, one call at a time, on an event in
\* any status with any number of its seats sold, while time passes
NextEventSeq ==
  \/ UpdateEventAny("p1")
  \/ Delete("p1")
  \/ Return("p1")
  \/ Tick

SpecEventSeq == InitAnyStatus /\ [][NextEventSeq]_vars

(* ---------------------------- measures --------------------------------- *)
RECURSIVE Sum(_, _)
\* the sum of f[x] over the x in S
Sum(f, S) == IF S = {} THEN 0 ELSE LET x == CHOOSE y \in S : TRUE IN f[x] + Sum(f, S \ {x})

\* the committed tickets of event e
TicketsOf(e) == {t \in TicketIDs : tickets[t] # NoTicket /\ tickets[t].eventID = e}

\* the quantity held by the active and used tickets of event e
HeldQuantity(e) ==
  Sum([t \in TicketIDs |-> tickets[t].quantity],
      {t \in TicketsOf(e) : tickets[t].status \in {TicketStatusActive, TicketStatusUsed}})

(* ---------------------------- C1 --------------------------------------- *)
\* C1 (no oversell): once a set of concurrent BuyTicket calls on an event has
\* completed, the quantities of the calls that returned a ticket sum to at
\* most the available they started from (with the purchase the run may start
\* from: to at most the capacity), and available is not negative.  Stated
\* for the runs in which no committed purchase had a negative quantity.
NoOversell ==
  (Quiescent /\ \A t \in TicketIDs : took[t] >= 0)
    => \A e \in EventIDs : sold[e] <= events[e].capacity /\ events[e].available >= 0

(* ---------------------------- C2 --------------------------------------- *)
\* C2 (core invariant): in every reachable state, whatever BuyTicket,
\* CancelTicket and UpdateTicketStatus calls ran with whatever integer
\* quantities, every event has 0 <= available <= capacity.
AvailableWithinCapacity ==
  \A e \in EventIDs : 0 <= events[e].available /\ events[e].available <= events[e].capacity

(* ---------------------------- C3 --------------------------------------- *)
\* C3 (capacity conservation): in every committed state, for every event,
\* available plus the quantity of its active and used tickets equals its
\* capacity.
CapacityConservation ==
  \A e \in EventIDs : events[e].available + HeldQuantity(e) = events[e].capacity

(* ---------------------------- C4 --------------------------------------- *)
\* C4 (no lost update): once the concurrent BuyTicket and CancelTicket calls
\* on an event have completed, available equals the initial available
\* (capacity, less the purchase the run may start from) minus the quantities
\* of the purchases that committed plus the quantities of the tickets whose
\* cancellation committed.
NoLostUpdate ==
  Quiescent =>
    \A e \in EventIDs :
      events[e].available =
        events[e].capacity
          - Sum(took, TicketsOf(e))
          + Sum([t \in TicketIDs |-> tickets[t].quantity], {t \in TicketsOf(e) : returned[t] >= 1})

(* ---------------------------- C5 --------------------------------------- *)
\* C5 (purchase atomicity): in every state another operation can observe, a
\* ticket row is visible exactly when its purchase's decrement has been
\* applied to available: a visible ticket's quantity is what was taken for
\* it, nothing was taken for a ticket that is not visible (also after a
\* failed write), and available is the capacity less everything taken plus
\* everything cancellations gave back.
PurchaseAtomic ==
  /\ \A t \in TicketIDs :
       IF tickets[t] = NoTicket THEN took[t] = 0
       ELSE tickets[t].quantity = StoredQuantity(took[t])
  /\ \A e \in EventIDs :
       events[e].available = events[e].capacity - Sum(took, TicketIDs) + Sum(gave, TicketIDs)

\* witness of C5: a purchase has committed both writes, and another purchase
\* failed at a write after its INSERT
PurchaseAtomicWitness ==
  \E p, r \in Procs :
    /\ p # r
    /\ pc[p] = "done" /\ call[p].op = "buy" /\ result[p] = OK /\ tickets[tid[p]].quantity = 1
    /\ pc[r] = "done" /\ call[r].op = "buy" /\ result[r] = ErrStorage("UPDATE events")

(* ---------------------------- C6 --------------------------------------- *)
\* the positions of a CancelTicket call inside its transaction
CancelSteps == {"cancel_event", "cancel_save", "cancel_update", "cancel_commit"}

\* C6 (cancellation atomicity): every step of a CancelTicket call either
\* leaves the committed tickets and events as they were (and if it ends the
\* call, the call fails: so a failed increment after the status write leaves
\* the committed status and available untouched), or it ends the call with
\* success and commits both the status cancelled and the return of the
\* ticket's quantity to available in one step.
CancelAtomic ==
  [][\A p \in Procs :
       (pc[p] \in CancelSteps /\ pc'[p] # pc[p]) =>
          \/ /\ tickets' = tickets
             /\ events' = events
             /\ pc'[p] = "done" => (result'[p] # OK /\ ~applied'[p])
          \/ /\ pc'[p] = "done"
             /\ result'[p] = OK
             /\ tickets' = [tickets EXCEPT ![tid[p]].status = TicketStatusCancelled]
             /\ events' = [events EXCEPT ![tickets[tid[p]].eventID].available = @ + tickets[tid[p]].quantity]]_vars

\* witness of C6: a cancellation failed at the increment, after its status
\* write; the committed ticket is active and its quantity is still taken
CancelAtomicWitness ==
  \E p \in Procs :
    /\ pc[p] = "done" /\ call[p].op = "cancel" /\ result[p] = ErrStorage("UPDATE events")
    /\ tickets[call[p].ticketID].status = TicketStatusActive
    /\ returned[call[p].ticketID] = 0
    /\ events["e1"].available = events["e1"].capacity - tickets[call[p].ticketID].quantity

(* ---------------------------- C7 --------------------------------------- *)
\* C7 (all-or-nothing as seen by the caller): a BuyTicket or CancelTicket
\* call that has returned an error has changed no committed row, and one
\* that has returned a ticket has applied its writes.
AllOrNothing ==
  \A p \in Procs :
    (pc[p] = "done" /\ call[p].op \in {"buy", "cancel"}) => (result[p] = OK <=> applied[p])

(* ---------------------------- C8 --------------------------------------- *)
\* C8 (idempotent rejection): with one call at a time, a CancelTicket by the
\* owner on a cancelled ticket whose row is read ends at once with the
\* not-cancellable error and changes neither the tickets nor the events; and
\* over any sequence of calls a ticket is cancelled at most once, returning
\* its quantity once.
IdempotentRejection ==
  /\ [](\A t \in TicketIDs :
          /\ returned[t] <= 1
          /\ tickets[t] # NoTicket => gave[t] = returned[t] * tickets[t].quantity)
  /\ [][\A p \in Procs :
          (/\ pc[p] = "idle"
           /\ call'[p].op = "cancel"
           /\ tickets[call'[p].ticketID] # NoTicket
           /\ tickets[call'[p].ticketID].status = TicketStatusCancelled
           /\ tickets[call'[p].ticketID].userID = call'[p].userID)
          => /\ pc'[p] = "done"
             /\ result'[p] \in {ErrNotCancellable, ErrStorage("SELECT tickets")}
             /\ tickets' = tickets
             /\ events' = events]_vars

\* witness of C8: the owner's second cancellation of a ticket was rejected
IdempotentRejectionWitness ==
  \E p \in Procs :
    /\ pc[p] = "done" /\ call[p].op = "cancel" /\ result[p] = ErrNotCancellable
    /\ tickets[call[p].ticketID].userID = call[p].userID
    /\ tickets[call[p].ticketID].status = TicketStatusCancelled
    /\ returned[call[p].ticketID] = 1
    /\ gave[call[p].ticketID] = tickets[call[p].ticketID].quantity

(* ---------------------------- C9 --------------------------------------- *)
\* C9 (concurrent double cancellation): of the CancelTicket calls that run
\* concurrently on one ticket, at most one commits.
SingleCancellation ==
  \A t \in TicketIDs : returned[t] <= 1

(* ---------------------------- C10 -------------------------------------- *)
\* C10 (round trip): with one call at a time, a successful CancelTicket of a
\* ticket, made while available is still what the ticket's purchase left,
\* restores available to the value before the purchase and leaves the ticket
\* cancelled.
RoundTrip ==
  [][\A p \in Procs :
       (/\ pc[p] = "cancel_commit"
        /\ pc'[p] = "done"
        /\ result'[p] = OK
        /\ events[tkt[p].eventID].available = pre[tid[p]] - took[tid[p]])
       => /\ events'[tkt[p].eventID].available = pre[tid[p]]
          /\ tickets'[tid[p]].status = TicketStatusCancelled]_vars

(* ---------------------------- C11 -------------------------------------- *)
\* C11 (boundary): with one call at a time, on an active event more than an
\* hour away with available = A > 0, a BuyTicket of quantity A passes the
\* checks on the event (it can only end there on a failed read) and its
\* commit leaves available = 0 with a ticket of quantity A; a BuyTicket of
\* quantity A + 1 ends at the checks with the insufficient-capacity error
\* (or a failed read), no ticket created and available still A.
Boundary ==
  [][\A p \in Procs :
       /\ ( /\ pc[p] = "buy_event" /\ pc'[p] # "buy_event"
            /\ call[p].eventID \in EventIDs
            /\ events[call[p].eventID].status = EventStatusActive
            /\ events[call[p].eventID].available > 0
            /\ events[call[p].eventID].eventDate > now + PurchaseCutoff )
          => /\ call[p].quantity = events[call[p].eventID].available
                  => (pc'[p] = "buy_create" \/ result'[p] = ErrStorage("SELECT events"))
             /\ call[p].quantity = events[call[p].eventID].available + 1
                  => /\ pc'[p] = "done"
                     /\ result'[p] \in {ErrInsufficient, ErrStorage("SELECT events")}
                     /\ tickets' = tickets
                     /\ events' = events
       /\ ( /\ pc[p] = "buy_commit" /\ pc'[p] = "buy_get"
            /\ events[call[p].eventID].available > 0
            /\ call[p].quantity = events[call[p].eventID].available )
          => /\ events'[call[p].eventID].available = 0
             /\ tickets[tid[p]] = NoTicket
             /\ tickets'[tid[p]].quantity = call[p].quantity
             /\ tickets'[tid[p]].status = TicketStatusActive]_vars

\* witness of C11: a purchase of exactly the available quantity has returned
\* its ticket and available is 0
BoundaryWitness ==
  \E p \in Procs :
    /\ pc[p] = "done" /\ call[p].op = "buy" /\ result[p] = OK
    /\ call[p].quantity = pre[tid[p]]
    /\ call[p].quantity = MaxCapacity
    /\ tickets[tid[p]].quantity = call[p].quantity
    /\ events[call[p].eventID].available = 0

(* ---------------------------- C12 -------------------------------------- *)
\* C12 (Scenario A): when two concurrent BuyTicket calls of quantity 6 on the
\* event of capacity 10, available 10, price 50 have both returned, neither
\* with a storage error, exactly one has returned its ticket (totalPrice
\* 300), the other the insufficient-capacity error, and available is 4.
ScenarioA ==
  (\A p \in Procs :
      /\ pc[p] = "done" /\ call[p].op = "buy"
      /\ result[p] \in {OK, ErrNotAvailable, ErrInsufficient, ErrTooLateBuy})
    => /\ \E p, r \in Procs :
            /\ p # r
            /\ result[p] = OK /\ tkt[p].totalPrice = 300
            /\ result[r] = ErrInsufficient
       /\ events["e1"].available = 4

(* ---------------------------- C13 -------------------------------------- *)
\* C13 (ticket status transitions): with one call at a time, an
\* UpdateTicketStatus that asks for used or cancelled succeeds only on a
\* ticket whose status is active (so a used ticket stays used).
StatusTransitions ==
  [][\A p \in Procs :
       (/\ pc[p] = "update_save" /\ pc'[p] = "done" /\ result'[p] = OK
        /\ call[p].status \in {TicketStatusUsed, TicketStatusCancelled})
       => tickets[tid[p]].status = TicketStatusActive]_vars

(* ---------------------------- C14 -------------------------------------- *)
\* C14 (frame of UpdateTicketStatus): every step of an UpdateTicketStatus
\* call, for every ticket and requested status, whether the call succeeds or
\* fails, leaves every event row (available and capacity) as it was.
UpdateFrame ==
  [][\A p \in Procs :
       (\/ pc[p] = "idle" /\ call'[p].op = "update"
        \/ pc[p] = "update_save" /\ pc'[p] # "update_save")
       => events' = events]_vars

\* witness of C14: an UpdateTicketStatus to cancelled has succeeded and
\* available still lacks the ticket's quantity
UpdateFrameWitness ==
  \E p \in Procs :
    /\ pc[p] = "done" /\ call[p].op = "update" /\ result[p] = OK
    /\ call[p].status = TicketStatusCancelled
    /\ tickets[call[p].ticketID].status = TicketStatusCancelled
    /\ tickets[call[p].ticketID].quantity > 0
    /\ events["e1"].available = events["e1"].capacity - tickets[call[p].ticketID].quantity

PurchaseCutoffRule ==
  [][\A p \in Procs :
       (/\ pc[p] = "buy_event" /\ pc'[p] # "buy_event"
        /\ call[p].eventID \in EventIDs
        /\ events[call[p].eventID].status = EventStatusActive
        /\ events[call[p].eventID].available > 0
        /\ call[p].quantity <= events[call[p].eventID].available
        /\ result'[p] # ErrStorage("SELECT events"))
       => IF events[call[p].eventID].eventDate < now + PurchaseCutoff
          THEN /\ pc'[p] = "done"
               /\ result'[p] = ErrTooLateBuy
               /\ tickets' = tickets
               /\ events' = events
          ELSE pc'[p] = "buy_create"]_vars

\* witness of C16: a purchase that met every earlier precondition was
\* refused as too close to the event, and nothing was written
PurchaseCutoffWitness ==
  \E p \in Procs :
    /\ pc[p] = "done" /\ call[p].op = "buy" /\ result[p] = ErrTooLateBuy
    /\ events[call[p].eventID].status = EventStatusActive
    /\ call[p].quantity >= 1
    /\ call[p].quantity <= events[call[p].eventID].available
    /\ events[call[p].eventID].eventDate < now + PurchaseCutoff
    /\ ~applied[p]

(* ---------------------------- C17 -------------------------------------- *)
\* C17 (cancellation cutoff): with one call at a time, when CancelTicket by
\* the owner of an active ticket has read the ticket's event, it ends with
\* the too-close-to-event error exactly when eventDate < now + 2h (at
\* eventDate = now + 2h it goes on to the status write); when it ends there
\* the ticket is still active and the events are unchanged.
CancelCutoffRule ==
  [][\A p \in Procs :
       (/\ pc[p] = "cancel_event" /\ pc'[p] # "cancel_event"
        /\ result'[p] # ErrStorage("SELECT events"))
       => IF events[tkt[p].eventID].eventDate < now + CancelCutoff
          THEN /\ pc'[p] = "done"
               /\ result'[p] = ErrTooLateCancel
               /\ tickets' = tickets
               /\ tickets[tid[p]].status = TicketStatusActive
               /\ events' = events
          ELSE pc'[p] = "cancel_save"]_vars

\* witness of C17: the owner's cancellation one hour before the event was
\* refused; the ticket is active and its quantity is still taken
CancelCutoffWitness ==
  \E p \in Procs :
    /\ pc[p] = "done" /\ call[p].op = "cancel" /\ result[p] = ErrTooLateCancel
    /\ tickets[call[p].ticketID].userID = call[p].userID
    /\ tickets[call[p].ticketID].status = TicketStatusActive
    /\ events["e1"].eventDate = now + 1
    /\ events["e1"].available = events["e1"].capacity - tickets[call[p].ticketID].quantity

(* ---------------------------- C18 -------------------------------------- *)
\* C18 (availability gate and error precedence): when BuyTicket has read an
\* event whose status is not active or whose available is 0, it ends with
\* the not-available error, whatever the quantity and the time left; when
\* the event is active with 0 < available < quantity, it ends with the
\* insufficient-capacity error. In both cases no ticket is created and the
\* events are unchanged.
AvailabilityGate ==
  [][\A p \in Procs :
       (/\ pc[p] = "buy_event" /\ pc'[p] # "buy_event"
        /\ call[p].eventID \in EventIDs
        /\ result'[p] # ErrStorage("SELECT events"))
       => /\ (\/ events[call[p].eventID].status # EventStatusActive
              \/ events[call[p].eventID].available = 0)
             => /\ pc'[p] = "done"
                /\ result'[p] = ErrNotAvailable
                /\ tickets' = tickets
                /\ events' = events
          /\ (/\ events[call[p].eventID].status = EventStatusActive
              /\ 0 < events[call[p].eventID].available
              /\ events[call[p].eventID].available < call[p].quantity)
             => /\ pc'[p] = "done"
                /\ result'[p] = ErrInsufficient
                /\ tickets' = tickets
                /\ events' = events]_vars

\* witness of C18: a purchase on a sold-out active event, for more than is
\* available and inside the purchase cutoff, was refused as not available
AvailabilityGateWitness ==
  \E p \in Procs :
    /\ pc[p] = "done" /\ call[p].op = "buy" /\ result[p] = ErrNotAvailable
    /\ events[call[p].eventID].status = EventStatusActive
    /\ events[call[p].eventID].available = 0
    /\ call[p].quantity > 0
    /\ events[call[p].eventID].eventDate < now + PurchaseCutoff
    /\ ~applied[p]

(* ---------------------------- C19 -------------------------------------- *)
\* C19 (user gate): a BuyTicket for a user that has no row or is not active,
\* whatever the event (present in any state, or missing) and the quantity,
\* ends at once with the not-found error, respectively the inactive-user
\* error (or the error of a failed read of the user), before the event is
\* read, and changes neither the tickets nor the events.
UserGate ==
  [][\A p \in Procs :
       (/\ pc[p] = "idle"
        /\ call'[p].op = "buy"
        /\ users[call'[p].userID] # "active")
       => /\ pc'[p] = "done"
          /\ result'[p] \in {IF users[call'[p].userID] = "absent" THEN ErrNotFound ELSE ErrInactive,
                             ErrStorage("SELECT users")}
          /\ tickets' = tickets
          /\ events' = events]_vars

\* witness of C19: an inactive user's purchase on a missing event was refused
\* as inactive
UserGateWitness ==
  \E p \in Procs :
    /\ pc[p] = "done" /\ call[p].op = "buy" /\ result[p] = ErrInactive
    /\ users[call[p].userID] = "inactive"
    /\ call[p].eventID = MissingEvent
    /\ call[p].quantity <= 0
    /\ ~applied[p]

(* ---------------------------- C20 -------------------------------------- *)
\* C20 (positive quantity): every ticket in the ledger has a quantity of at
\* least 1 and was created by a request of quantity at least 1 (what its
\* purchase took from available).
PositiveQuantity ==
  \A t \in TicketIDs :
    tickets[t] # NoTicket => (tickets[t].quantity >= 1 /\ took[t] >= 1)

(* ---------------------------- C21 -------------------------------------- *)
\* C21 (ticket frame): every ticket of the ledger is priced at the event's
\* price times the ticket's quantity (purchases are the only calls of this
\* specification, so the event's price is the one every purchase read).
TicketPriced ==
  \A t \in TicketIDs :
    tickets[t] # NoTicket =>
      tickets[t].totalPrice = events[tickets[t].eventID].price * tickets[t].quantity

(* ---------------------------- C22 -------------------------------------- *)
\* the calls in progress, other than p's, whose transaction works on the
\* event p's transaction works on
SameEventCalls(p) ==
  {q \in Procs \ {p} : pc[q] \notin {"idle", "done"} /\ TxEvent(q) = TxEvent(p)}

\* C22 (independence of events): a purchase or cancellation that no other
\* call on the same event is in progress with can take its next statement,
\* whatever locks the transactions on other events hold: its INSERT of the
\* ticket, its UPDATE of the ticket, its UPDATE of the event and its COMMIT
\* are enabled.
EventsIndependent ==
  \A p \in Procs :
    SameEventCalls(p) = {} =>
      /\ (pc[p] = "buy_create" /\ FreshIDs # {}) => ENABLED BuyCreate(p, TRUE)
      /\ pc[p] = "buy_update" => ENABLED BuyUpdate(p, TRUE)
      /\ pc[p] = "buy_commit" => ENABLED BuyCommit(p, TRUE)
      /\ pc[p] = "cancel_save" => ENABLED CancelSave(p, TRUE)
      /\ pc[p] = "cancel_update" => ENABLED CancelUpdate(p, TRUE)
      /\ pc[p] = "cancel_commit" => ENABLED CancelCommit(p, TRUE)

\* a purchase on e1 holds e1's exclusive lock while another call is about to
\* update e2, and while another call holds e2's exclusive lock
EventsIndependentWitness ==
  /\ pc["p1"] = "buy_commit" /\ TxEvent("p1") = "e1"
  /\ pc["p2"] \in {"buy_commit", "cancel_commit"} /\ TxEvent("p2") = "e2"

(* ---------------------------- C23 -------------------------------------- *)
\* C23 (bounded lock wait): a call that ended because its wait for a lock
\* exceeded the bound is answered with the Conflict status, not with the
\* status of a storage failure.
LockTimeoutIsConflict ==
  \A p \in Procs :
    (pc[p] = "done" /\ result[p] = ErrLockWait) =>
      /\ StatusCode(call[p].op, result[p]) = StatusConflict
      /\ StatusCode(call[p].op, result[p]) # StatusCode(call[p].op, ErrStorage("UPDATE events"))

(* ---------------------------- C24 -------------------------------------- *)
\* C24 (delete guard): no deleted event has an active or used ticket that a
\* purchase of at least one seat committed.
NoDeletedWithTickets ==
  \A e \in EventIDs :
    events[e].deleted =>
      \A t \in TicketsOf(e) :
        took[t] >= 1 => tickets[t].status \notin {TicketStatusActive, TicketStatusUsed}

(* ---------------------------- C25 -------------------------------------- *)
\* C25 (per-event mutual exclusion): a purchase that holds the event row's
\* lock for its decrement validated the request against the value of
\* available that the decrement is applied to.
ValidatedIsDecremented ==
  \A p \in Procs :
    pc[p] = "buy_commit" => ev[p].available = events[call[p].eventID].available

(* ---------------------------- C26 -------------------------------------- *)
\* C26 (status update against cancellation): a ticket whose quantity a
\* cancellation has returned to its event is neither used nor active.
ReturnedIsCancelled ==
  \A t \in TicketIDs :
    returned[t] >= 1 => tickets[t].status \notin {TicketStatusUsed, TicketStatusActive}

(* ---------------------------- C27 -------------------------------------- *)
\* C27 (event update against bookings): once an admin's UpdateEvent calls and
\* a user's purchases and cancellations on the event have all completed, the
\* seats sold (capacity - available) are the quantity held by the event's
\* active and used tickets.
UpdateKeepsSold ==
  Quiescent => \A e \in EventIDs : SoldTickets(events[e]) = HeldQuantity(e)

(* ---------------------------- C28 -------------------------------------- *)
\* C28 (variant without a transaction): the statement after the ticket's
\* INSERT either returns the error of the decrement and leaves available as
\* it was, or applies the decrement to whatever available is, without a
\* check, and keeps the ticket; a ticket leaves the ledger only in the first
\* case.
PlainCompensation ==
  [][\A p \in Procs :
       (pc[p] = "plain_update" /\ pc'[p] # "plain_update") =>
         LET e == call[p].eventID IN
         \/ /\ result'[p] = ErrStorage("UPDATE events")
            /\ events' = events
         \/ /\ pc'[p] = "buy_get"
            /\ events'[e].available = events[e].available - call[p].quantity
            /\ tickets' = tickets]_vars

\* two purchases of at least one seat each have both passed the capacity
\* check and both decremented: both tickets are in the ledger and available
\* is negative
PlainCompensationWitness ==
  /\ Quiescent
  /\ \E e \in EventIDs : events[e].available < 0
  /\ \A t \in TicketIDs : tickets[t] # NoTicket /\ took[t] >= 1
  /\ \A p \in Procs : call[p].op = "plain_buy" /\ result[p] = OK

(* ---------------------------- C29 -------------------------------------- *)
\* C29 (deadlock freedom): no two transactions each wait for a row lock the
\* other holds.
NoCyclicWait ==
  \A p, q \in Procs : ~(p # q /\ q \in WaitsOn(p) /\ p \in WaitsOn(q))

(* ---------------------------- C30 -------------------------------------- *)
\* an UpdateEvent call by handler p starts in this step, asks for a capacity
\* and reads its event
ResizeStarts(p) ==
  /\ pc[p] = "idle" /\ pc'[p] # "idle"
  /\ call'[p].op = "event_update" /\ call'[p].capacity # <<>>
  /\ call'[p].eventID \in EventIDs /\ ~events[call'[p].eventID].deleted
  /\ result'[p] # ErrStorage("SELECT events")

\* the rest of the request passes its own checks
RestAccepted(p) ==
  /\ call'[p].price = <<>> \/ call'[p].price[1] >= 0
  /\ call'[p].eventDate = <<>> \/ call'[p].eventDate[1] >= now

\* the write of an UpdateEvent call: a failed save leaves the events as they
\* are; a save that succeeds gives the event the capacity asked for, keeps
\* capacity - available, and keeps 0 <= available <= capacity
ResizeSaves(p) ==
  (pc[p] = "event_save" /\ pc'[p] # "event_save" /\ call[p].capacity # <<>>) =>
    LET e == call[p].eventID IN
    IF result'[p] # OK THEN events' = events
    ELSE /\ events'[e].capacity = call[p].capacity[1]
         /\ events'[e].capacity - events'[e].available = events[e].capacity - events[e].available
         /\ (0 <= events[e].available /\ events[e].available <= events[e].capacity)
              => (0 <= events'[e].available /\ events'[e].available <= events'[e].capacity)

====
